---- MODULE Spec2Model ----
(***************************************************************************)
(* Model of function_app.py: the HTTP-triggered function `main`, which     *)
(* fetches a GA4 report (get_ga4_report), flattens it to JSON text         *)
(* (format_response_as_json), sets the Cosmos DB and queue output bindings *)
(* and answers with an HTTP response.                                      *)
(*                                                                         *)
(* JSON text is modelled as the sequence of lexical tokens json.dumps      *)
(* writes (brackets, separators, line breaks with their indentation,       *)
(* quoted strings), so that serialisation is a real conversion and the     *)
(* properties of the output are read back from the text with a parser.     *)
(***************************************************************************)
EXTENDS Integers, Sequences, FiniteSets, TLC

\* ------------------------------------------------------------------ bounds
MaxRows == 2
MaxHeaders == 2
MaxValues == 2
NumInvocations == 2

\* --------------------------------------------------------- program constants
KEY_FILE_LOCATION == "ga4account.json"
PROPERTY_ID == "469101596"
INDENT == 4
STATUS_OK == 200
STATUS_ERROR == 500
REPORT_ID == "report"
REPORT_PROCESSED == "Report processed"

\* The message prefixes of the three logging.error calls and of the 500 body.
GA4_ERROR_PREFIX == "GA4 report fetch error: "
JSON_ERROR_PREFIX == "JSON conversion error: "
MAIN_ERROR_PREFIX == "error: "
MAIN_INFO == "GA report info"

\* The dimension and metric names main asks for, in request order.
dimensions ==
    <<"pagePath", "pageTitle", "city", "country", "browser", "operatingSystem", "deviceCategory">>
metrics ==
    <<"screenPageViews", "sessions", "totalUsers", "newUsers", "bounceRate", "averageSessionDuration">>

Min(a, b) == IF a <= b THEN a ELSE b

Prefix(s, n) == SubSeq(s, 1, Min(n, Len(s)))

\* ------------------------------------------------------- backend responses
\* Value vectors the backend may return for a row (all values are strings).
DimensionValueVectors ==
    { <<"/home", "Tokyo", "JP", "Chrome">>, <<"/about", "42", "US", "Safari">> }
MetricValueVectors ==
    { <<"42", "0.5", "7", "1">> }

\* One row: dimension_values and metric_values, each a list of strings.  The
\* two lists of a row have the same length n, which may differ from either
\* header count.
Rows ==
    { [dimension_values |-> Prefix(d, n), metric_values |-> Prefix(m, n)] :
        d \in DimensionValueVectors, m \in MetricValueVectors, n \in 0..MaxValues }

RowLists == UNION { [1..n -> Rows] : n \in 0..MaxRows }

\* A RunReportResponse: the header names echo the request's names (distinct,
\* in request order, at least one of each); has_headers = FALSE is an object
\* that lacks the header attributes.
WellTypedResponses ==
    { [has_headers |-> TRUE,
       dimension_headers |-> Prefix(dimensions, m),
       metric_headers |-> Prefix(metrics, k),
       rows |-> rs] : m \in 1..MaxHeaders, k \in 1..MaxHeaders, rs \in RowLists }

HeaderlessResponses ==
    { [has_headers |-> FALSE, dimension_headers |-> <<>>, metric_headers |-> <<>>,
       rows |-> rs] : rs \in UNION { [1..n -> Rows] : n \in 0..1 } }

Responses == WellTypedResponses \cup HeaderlessResponses

\* ------------------------------------------------ format_response_as_json
\* zip pairing each name with the value at the mirrored position.
zipMirrored(names, values) ==
    LET n == Min(Len(names), Len(values))
    IN [p \in 1..n |-> <<names[p], values[n + 1 - p]>>]

\* zip(names, values): pairs by position, stops at the shorter list.
zip(names, values) ==
    [p \in 1..Min(Len(names), Len(values)) |-> <<names[p], values[p]>>]

\* A Python dict as the sequence of its (key, value) items in insertion
\* order; assigning an existing key replaces its value in place.
DictSet(d, k, v) ==
    IF \E p \in 1..Len(d) : d[p][1] = k
    THEN [p \in 1..Len(d) |-> IF d[p][1] = k THEN <<k, v>> ELSE d[p]]
    ELSE Append(d, <<k, v>>)

RECURSIVE DictOf(_)
DictOf(pairs) ==
    IF pairs = <<>> THEN <<>>
    ELSE LET n == Len(pairs)
         IN DictSet(DictOf(SubSeq(pairs, 1, n - 1)), pairs[n][1], pairs[n][2])

\* The dict built for one row (the loop body).
RowData(response, row) ==
    [dimensions |-> DictOf(zip(response.dimension_headers, row.dimension_values)),
     metrics |-> DictOf(zip(response.metric_headers, row.metric_values))]

\* The loop run over the rows in reverse (as a sort of the output would do).
FlattenRowsReversed(response) ==
    LET n == Len(response.rows)
    IN [j \in 1..n |-> RowData(response, response.rows[n + 1 - j])]

\* The list `result` after the loop over response.rows.
FlattenRows(response) ==
    [j \in 1..Len(response.rows) |-> RowData(response, response.rows[j])]

\* The loop body reads response.dimension_headers, so a response without the
\* header attributes raises as soon as there is a row.
FormatRaises(response) == ~response.has_headers /\ response.rows # <<>>

\* ------------------------------------------------------------- json.dumps
\* Tokens of the JSON text.
Tok(t, v) == [t |-> t, v |-> v, n |-> 0]
NL(depth) == [t |-> "nl", v |-> "", n |-> INDENT * depth]
Str(s) == Tok("str", s)
Punct(c) == Tok("punct", c)

RECURSIVE Flatten(_)
Flatten(ss) == IF ss = <<>> THEN <<>> ELSE Head(ss) \o Flatten(Tail(ss))

\* A dict of string values at nesting depth `depth`: "{}" when empty, else
\* one item per line.
DumpsStrDict(d, depth) ==
    IF d = <<>> THEN <<Punct("{"), Punct("}")>>
    ELSE <<Punct("{")>>
         \o Flatten([p \in 1..Len(d) |->
                (IF p > 1 THEN <<Punct(",")>> ELSE <<>>)
                \o <<NL(depth + 1), Str(d[p][1]), Punct(":"), Str(d[p][2])>>])
         \o <<NL(depth), Punct("}")>>

\* One record {"dimensions": {...}, "metrics": {...}} at depth `depth`.
DumpsRecord(r, depth) ==
    <<Punct("{"), NL(depth + 1), Str("dimensions"), Punct(":")>>
    \o DumpsStrDict(r.dimensions, depth + 1)
    \o <<Punct(","), NL(depth + 1), Str("metrics"), Punct(":")>>
    \o DumpsStrDict(r.metrics, depth + 1)
    \o <<NL(depth), Punct("}")>>

\* json.dumps(result, indent=4, ensure_ascii=False)
json_dumps(result) ==
    IF result = <<>> THEN <<Punct("["), Punct("]")>>
    ELSE <<Punct("[")>>
         \o Flatten([j \in 1..Len(result) |->
                (IF j > 1 THEN <<Punct(",")>> ELSE <<>>)
                \o <<NL(1)>> \o DumpsRecord(result[j], 1)])
         \o <<NL(0), Punct("]")>>

format_response_as_json(response) == json_dumps(FlattenRows(response))

\* ------------------------------------------------------------- json.loads
\* Reading the JSON text back: line breaks are whitespace; a value is a
\* list, a dict (items in text order) or a scalar.  A node is
\* [k, v, items] with k in {"list", "dict", "str", "num"}.
Node(k, v, items) == [k |-> k, v |-> v, items |-> items]

IsPunct(ts, p, c) == p <= Len(ts) /\ ts[p].t = "punct" /\ ts[p].v = c

RECURSIVE ParseValue(_, _), ParseElems(_, _, _), ParseMembers(_, _, _)
ParseValue(ts, p) ==
    IF IsPunct(ts, p, "[")
    THEN IF IsPunct(ts, p + 1, "]")
         THEN [node |-> Node("list", "", <<>>), next |-> p + 2]
         ELSE ParseElems(ts, p + 1, <<>>)
    ELSE IF IsPunct(ts, p, "{")
    THEN IF IsPunct(ts, p + 1, "}")
         THEN [node |-> Node("dict", "", <<>>), next |-> p + 2]
         ELSE ParseMembers(ts, p + 1, <<>>)
    ELSE [node |-> Node(ts[p].t, ts[p].v, <<>>), next |-> p + 1]

ParseElems(ts, p, acc) ==
    LET r == ParseValue(ts, p)
    IN IF IsPunct(ts, r.next, ",")
       THEN ParseElems(ts, r.next + 1, Append(acc, r.node))
       ELSE [node |-> Node("list", "", Append(acc, r.node)), next |-> r.next + 1]

ParseMembers(ts, p, acc) ==
    LET r == ParseValue(ts, p + 2)
        item == <<ts[p].v, r.node>>
    IN IF IsPunct(ts, r.next, ",")
       THEN ParseMembers(ts, r.next + 1, Append(acc, item))
       ELSE [node |-> Node("dict", "", Append(acc, item)), next |-> r.next + 1]

JsonLoads(text) ==
    ParseValue(SelectSeq(text, LAMBDA tk : tk.t # "nl"), 1).node

\* The items of the dict node d under key k, and the value of key k.
HasKey(d, k) == \E p \in 1..Len(d.items) : d.items[p][1] = k
Get(d, k) == d.items[CHOOSE p \in 1..Len(d.items) : d.items[p][1] = k][2]

\* ------------------------------------------------------------------ state
VARIABLES
    pc,              \* per invocation: the statement main is at
    response,        \* per invocation: <<>> or <<the RunReportResponse>>
    results,         \* per invocation: <<>> or the JSON text
    exc,             \* per invocation: the exception raised in main's try block, or NoExc
    outputDocument,  \* per invocation: <<>> or <<the document set>>
    msg,             \* per invocation: <<>> or <<the queue message set>>
    http,            \* per invocation: the HTTP responses main returned
    requests,        \* per invocation: number of run_report calls issued
    log              \* the process-wide logging sink

vars == <<pc, response, results, exc, outputDocument, msg, http, requests, log>>

NoExc == ""

\* Exceptions the client construction, the report request and the output
\* bindings can raise (their str(e)).
ClientErrors == {"credentials file not found"}
RunReportErrors == {"network unreachable", "invalid dimension name"}
ATTRIBUTE_ERROR == "object has no attribute dimension_headers"
DOCUMENT_ERROR == "document output failed"
QUEUE_ERROR == "queue output failed"

LogEntry(level, prefix, detail) == [level |-> level, prefix |-> prefix, detail |-> detail]

HttpResponse(body, status_code) == [body |-> body, status_code |-> status_code]

\* f'...: {e}' : the fixed prefix followed by str(e).
ErrorBody(e) == <<Tok("text", MAIN_ERROR_PREFIX), Tok("text", e)>>

Invocations == DOMAIN pc

InitFor(I) ==
    /\ pc = [i \in I |-> "main"]
    /\ response = [i \in I |-> <<>>]
    /\ results = [i \in I |-> <<>>]
    /\ exc = [i \in I |-> NoExc]
    /\ outputDocument = [i \in I |-> <<>>]
    /\ msg = [i \in I |-> <<>>]
    /\ http = [i \in I |-> <<>>]
    /\ requests = [i \in I |-> 0]
    /\ log = <<>>

\* ----------------------------------------------------------------- actions
\* main is entered: logging.info, then the call of get_ga4_report.
MainEnter(i) ==
    /\ pc[i] = "main"
    /\ log' = Append(log, LogEntry("info", MAIN_INFO, ""))
    /\ pc' = [pc EXCEPT ![i] = "get_ga4_report"]
    /\ UNCHANGED <<response, results, exc, outputDocument, msg, http, requests>>

\* An exception e raised inside main's try block: control goes to main's
\* except clause.
Raise(i, e) ==
    /\ exc' = [exc EXCEPT ![i] = e]
    /\ pc' = [pc EXCEPT ![i] = "main_except"]

\* get_ga4_report: from_service_account_file raises; logged and re-raised.
GetGa4ReportClientError(i) ==
    /\ pc[i] = "get_ga4_report"
    /\ \E e \in ClientErrors :
          /\ log' = Append(log, LogEntry("error", GA4_ERROR_PREFIX, e))
          /\ Raise(i, e)
    /\ UNCHANGED <<response, results, outputDocument, msg, http, requests>>

\* get_ga4_report retrying the request after an error instead of re-raising.
GetGa4ReportRunErrorRetry(i) ==
    /\ pc[i] = "get_ga4_report"
    /\ requests[i] < 3
    /\ requests' = [requests EXCEPT ![i] = @ + 1]
    /\ \E e \in RunReportErrors :
          log' = Append(log, LogEntry("error", GA4_ERROR_PREFIX, e))
    /\ UNCHANGED <<pc, exc, response, results, outputDocument, msg, http>>

\* get_ga4_report: client.run_report raises; logged and re-raised.
GetGa4ReportRunError(i) ==
    /\ pc[i] = "get_ga4_report"
    /\ requests' = [requests EXCEPT ![i] = @ + 1]
    /\ \E e \in RunReportErrors :
          /\ log' = Append(log, LogEntry("error", GA4_ERROR_PREFIX, e))
          /\ Raise(i, e)
    /\ UNCHANGED <<response, results, outputDocument, msg, http>>

\* get_ga4_report: client.run_report returns a response drawn from R.
GetGa4ReportReturn(i, R) ==
    /\ pc[i] = "get_ga4_report"
    /\ requests' = [requests EXCEPT ![i] = @ + 1]
    /\ \E r \in R : response' = [response EXCEPT ![i] = <<r>>]
    /\ pc' = [pc EXCEPT ![i] = "format_response_as_json"]
    /\ UNCHANGED <<results, exc, outputDocument, msg, http, log>>

get_ga4_report(i, R) ==
    \/ GetGa4ReportClientError(i)
    \/ GetGa4ReportRunError(i)
    \/ GetGa4ReportReturn(i, R)

\* results = format_response_as_json(response)
FormatReturn(i) ==
    /\ pc[i] = "format_response_as_json"
    /\ ~FormatRaises(response[i][1])
    /\ results' = [results EXCEPT ![i] = format_response_as_json(response[i][1])]
    /\ pc' = [pc EXCEPT ![i] = "outputDocument.set"]
    /\ UNCHANGED <<response, exc, outputDocument, msg, http, requests, log>>

\* format_response_as_json raises; logged and re-raised.
FormatError(i) ==
    /\ pc[i] = "format_response_as_json"
    /\ FormatRaises(response[i][1])
    /\ log' = Append(log, LogEntry("error", JSON_ERROR_PREFIX, ATTRIBUTE_ERROR))
    /\ Raise(i, ATTRIBUTE_ERROR)
    /\ UNCHANGED <<response, results, outputDocument, msg, http, requests>>

\* outputDocument.set(func.Document.from_dict({"id": "report", "data": results}))
SetOutputDocument(i) ==
    /\ pc[i] = "outputDocument.set"
    /\ outputDocument' =
          [outputDocument EXCEPT ![i] = <<[id |-> REPORT_ID, data |-> results[i]]>>]
    /\ pc' = [pc EXCEPT ![i] = "msg.set"]
    /\ UNCHANGED <<response, results, exc, msg, http, requests, log>>

SetOutputDocumentError(i) ==
    /\ pc[i] = "outputDocument.set"
    /\ Raise(i, DOCUMENT_ERROR)
    /\ UNCHANGED <<response, results, outputDocument, msg, http, requests, log>>

\* main going on to the return without setting the queue message.
SetMsgSkipped(i) ==
    /\ pc[i] = "msg.set"
    /\ pc' = [pc EXCEPT ![i] = "return"]
    /\ UNCHANGED <<response, results, exc, outputDocument, msg, http, requests, log>>

\* msg.set("Report processed")
SetMsg(i) ==
    /\ pc[i] = "msg.set"
    /\ msg' = [msg EXCEPT ![i] = <<REPORT_PROCESSED>>]
    /\ pc' = [pc EXCEPT ![i] = "return"]
    /\ UNCHANGED <<response, results, exc, outputDocument, http, requests, log>>

\* msg.set storing the message before it raises.
SetMsgErrorAfterWrite(i) ==
    /\ pc[i] = "msg.set"
    /\ msg' = [msg EXCEPT ![i] = <<REPORT_PROCESSED>>]
    /\ Raise(i, QUEUE_ERROR)
    /\ UNCHANGED <<response, results, outputDocument, http, requests, log>>

SetMsgError(i) ==
    /\ pc[i] = "msg.set"
    /\ Raise(i, QUEUE_ERROR)
    /\ UNCHANGED <<response, results, outputDocument, msg, http, requests, log>>

\* return func.HttpResponse(results, status_code=200)
MainReturn(i) ==
    /\ pc[i] = "return"
    /\ http' = [http EXCEPT ![i] = Append(@, HttpResponse(results[i], STATUS_OK))]
    /\ pc' = [pc EXCEPT ![i] = "done"]
    /\ UNCHANGED <<response, results, exc, outputDocument, msg, requests, log>>

\* The except clause answering with a fixed message, without str(e).
MainExceptGeneric(i) ==
    /\ pc[i] = "main_except"
    /\ log' = Append(log, LogEntry("error", MAIN_ERROR_PREFIX, exc[i]))
    /\ http' = [http EXCEPT ![i] =
                   Append(@, HttpResponse(<<Tok("text", MAIN_ERROR_PREFIX)>>, STATUS_ERROR))]
    /\ pc' = [pc EXCEPT ![i] = "done"]
    /\ UNCHANGED <<response, results, exc, outputDocument, msg, requests>>

\* The except clause taking the detail from the last error in the shared log.
MainExceptSharedLog(i) ==
    /\ pc[i] = "main_except"
    /\ LET errors == SelectSeq(log, LAMBDA l : l.level = "error")
           detail == IF errors = <<>> THEN exc[i] ELSE errors[Len(errors)].detail
       IN http' = [http EXCEPT ![i] =
                     Append(@, HttpResponse(ErrorBody(detail), STATUS_ERROR))]
    /\ log' = Append(log, LogEntry("error", MAIN_ERROR_PREFIX, exc[i]))
    /\ pc' = [pc EXCEPT ![i] = "done"]
    /\ UNCHANGED <<response, results, exc, outputDocument, msg, requests>>

\* The except clause logging and re-raising: no response is returned.
MainExceptReraise(i) ==
    /\ pc[i] = "main_except"
    /\ log' = Append(log, LogEntry("error", MAIN_ERROR_PREFIX, exc[i]))
    /\ pc' = [pc EXCEPT ![i] = "raised"]
    /\ UNCHANGED <<response, results, exc, outputDocument, msg, http, requests>>

\* except Exception as e: logged, answered with status 500.
MainExcept(i) ==
    /\ pc[i] = "main_except"
    /\ log' = Append(log, LogEntry("error", MAIN_ERROR_PREFIX, exc[i]))
    /\ http' = [http EXCEPT ![i] = Append(@, HttpResponse(ErrorBody(exc[i]), STATUS_ERROR))]
    /\ pc' = [pc EXCEPT ![i] = "done"]
    /\ UNCHANGED <<response, results, exc, outputDocument, msg, requests>>

main(i, R) ==
    \/ MainEnter(i)
    \/ get_ga4_report(i, R)
    \/ FormatReturn(i)
    \/ FormatError(i)
    \/ SetOutputDocument(i)
    \/ SetOutputDocumentError(i)
    \/ SetMsg(i)
    \/ SetMsgError(i)
    \/ MainReturn(i)
    \/ MainExcept(i)

\* One invocation, any report the backend can return.
Init == InitFor({1})
Next == \E i \in Invocations : main(i, Responses)
Spec == Init /\ [][Next]_vars

\* One invocation under the scheduling the interpreter gives it: sequential
\* code runs on as long as a statement remains (the backend call returns or
\* raises).  The reports are those of at most one row.
LiveResponses == { r \in Responses : Len(r.rows) <= 1 }
NextLive == \E i \in Invocations : main(i, LiveResponses)
SpecLive == Init /\ [][NextLive]_vars /\ WF_vars(NextLive)

\* Several invocations run concurrently by the hosting platform, over a small
\* set of reports: no rows, one aligned row, an object without headers.
ConcResponses ==
    { [has_headers |-> TRUE, dimension_headers |-> Prefix(dimensions, 1),
       metric_headers |-> Prefix(metrics, 1), rows |-> <<>>],
      [has_headers |-> TRUE, dimension_headers |-> Prefix(dimensions, 1),
       metric_headers |-> Prefix(metrics, 1),
       rows |-> <<[dimension_values |-> <<"/home">>, metric_values |-> <<"42">>]>>],
      [has_headers |-> FALSE, dimension_headers |-> <<>>, metric_headers |-> <<>>,
       rows |-> <<[dimension_values |-> <<"/home">>, metric_values |-> <<"42">>]>>] }

InitConc == InitFor(1..NumInvocations)
NextConc == \E i \in Invocations : main(i, ConcResponses)
SpecConc == InitConc /\ [][NextConc]_vars

\* ------------------------------------------------------------- properties
Done(i) == pc[i] = "done"
Formatted(i) == results[i] # <<>>
Failed(i) == exc[i] # NoExc
StatusOf(i) == http[i][Len(http[i])].status_code
BodyOf(i) == http[i][Len(http[i])].body

\* The records read back from the JSON text of invocation i.
RecordsOf(i) == JsonLoads(results[i]).items
DimensionsOf(rec) == Get(rec, "dimensions")
MetricsOf(rec) == Get(rec, "metrics")

\* A row whose value counts differ from the header counts.
RowMismatched(r, row) ==
    \/ Len(row.dimension_values) # Len(r.dimension_headers)
    \/ Len(row.metric_values) # Len(r.metric_headers)
Mismatched(r) == \E j \in 1..Len(r.rows) : RowMismatched(r, r.rows[j])

\* C1: for every response with N rows, M dimension headers and K metric
\* headers the JSON text is an array of exactly N records, each with exactly
\* M entries under "dimensions" and K entries under "metrics" (the empty
\* array for N = 0).
C1_RecordCounts ==
    \A i \in Invocations :
        Formatted(i) =>
            LET r == response[i][1]
                out == JsonLoads(results[i])
            IN /\ out.k = "list"
               /\ Len(out.items) = Len(r.rows)
               /\ r.rows = <<>> => results[i] = <<Punct("["), Punct("]")>>
               /\ \A j \in 1..Len(out.items) :
                     /\ Len(DimensionsOf(out.items[j]).items) = Len(r.dimension_headers)
                     /\ Len(MetricsOf(out.items[j]).items) = Len(r.metric_headers)

\* C4: a response with a row whose value counts differ from the header
\* counts makes format_response_as_json raise, so that main never answers
\* such a report with status 200 and a partial record: it answers 500.
C4_MismatchRaises ==
    \A i \in Invocations :
        (Done(i) /\ response[i] # <<>> /\ response[i][1].has_headers
            /\ Mismatched(response[i][1])) =>
            StatusOf(i) = STATUS_ERROR

\* C2: in the record of every row, the header name at position p is mapped to
\* the row's value at position p, for dimensions and for metrics, and the
\* value is the backend's string, written as a JSON string.
C2_PositionalMapping ==
    \A i \in Invocations :
        Formatted(i) =>
            LET r == response[i][1]
                recs == RecordsOf(i)
            IN \A j \in 1..Len(r.rows) :
                  /\ \A p \in 1..Min(Len(r.dimension_headers), Len(r.rows[j].dimension_values)) :
                        LET val == Get(DimensionsOf(recs[j]), r.dimension_headers[p])
                        IN val.k = "str" /\ val.v = r.rows[j].dimension_values[p]
                  /\ \A p \in 1..Min(Len(r.metric_headers), Len(r.rows[j].metric_values)) :
                        LET val == Get(MetricsOf(recs[j]), r.metric_headers[p])
                        IN val.k = "str" /\ val.v = r.rows[j].metric_values[p]

\* A text was produced for a row with two dimensions and two metrics, one
\* dimension value being the numeric-looking "42".
C2_Witness ==
    \E i \in Invocations :
        /\ Formatted(i)
        /\ Len(response[i][1].dimension_headers) = 2
        /\ Len(response[i][1].metric_headers) = 2
        /\ Len(response[i][1].rows) >= 1
        /\ response[i][1].rows[1].dimension_values = <<"/about", "42">>
        /\ Len(response[i][1].rows[1].metric_values) = 2

\* C3: the output has one record per row, and the record at position j is
\* the one built from the row at position j: no row is reordered, dropped or
\* duplicated.
C3_RowOrder ==
    \A i \in Invocations :
        Formatted(i) =>
            LET r == response[i][1]
                recs == RecordsOf(i)
            IN /\ Len(recs) = Len(r.rows)
               /\ \A j \in 1..Len(r.rows) :
                     recs[j] = JsonLoads(json_dumps(<<RowData(r, r.rows[j])>>)).items[1]

\* A text was produced for two rows that differ.
C3_Witness ==
    \E i \in Invocations :
        /\ Formatted(i)
        /\ Len(response[i][1].rows) = 2
        /\ Len(response[i][1].dimension_headers) >= 1
        /\ Len(response[i][1].rows[1].dimension_values) >= 1
        /\ Len(response[i][1].rows[2].dimension_values) >= 1
        /\ response[i][1].rows[1].dimension_values[1]
              # response[i][1].rows[2].dimension_values[1]

\* C5: when main has answered with status 200, the body is the JSON text of
\* that invocation's report, the document output holds id "report" with that
\* same text as data, and the queue output holds "Report processed".
C5_SuccessOutputs ==
    \A i \in Invocations :
        (Done(i) /\ StatusOf(i) = STATUS_OK) =>
            /\ response[i] # <<>>
            /\ BodyOf(i) = format_response_as_json(response[i][1])
            /\ outputDocument[i] = <<[id |-> "report", data |-> BodyOf(i)]>>
            /\ msg[i] = <<"Report processed">>

\* An invocation answered 200 for a report with rows.
C5_Witness ==
    \E i \in Invocations :
        Done(i) /\ StatusOf(i) = STATUS_OK /\ response[i][1].rows # <<>>

\* C6: once any step of main has raised, no later step of the try block runs,
\* and main answers with exactly one response of status 500 whose body
\* contains the text of the error raised, whichever step raised it.
C6_FailureIs500 ==
    \A i \in Invocations :
        Failed(i) =>
            /\ pc[i] \in {"main_except", "done"}
            /\ Done(i) =>
                  /\ Len(http[i]) = 1
                  /\ StatusOf(i) = STATUS_ERROR
                  /\ \E p \in 1..Len(BodyOf(i)) : BodyOf(i)[p].v = exc[i]

\* An invocation whose flattening raised has answered.
C6_Witness ==
    \E i \in Invocations : Done(i) /\ exc[i] = ATTRIBUTE_ERROR

\* C7: an invocation that answered with status 500 has not set the queue
\* output; the message is set only in invocations that answer 200.
C7_NoQueueOnFailure ==
    \A i \in Invocations :
        /\ (Done(i) /\ StatusOf(i) = STATUS_ERROR) => msg[i] = <<>>
        /\ (Done(i) /\ msg[i] # <<>>) => StatusOf(i) = STATUS_OK
        /\ Failed(i) => msg[i] = <<>>

\* An invocation failed at the queue output itself, after the document was set.
C7_Witness ==
    \E i \in Invocations :
        Done(i) /\ StatusOf(i) = STATUS_ERROR /\ exc[i] = QUEUE_ERROR
            /\ outputDocument[i] # <<>>

\* Whether the log holds the error entry get_ga4_report writes for e.
Ga4ErrorLogged(e) ==
    \E p \in 1..Len(log) :
        log[p] = LogEntry("error", GA4_ERROR_PREFIX, e)

\* C8: an invocation issues at most one report request; when the client
\* construction or the request fails, the error is logged and reaches main
\* with no further request, and no text, document or queue message is
\* produced in that invocation.
C8_SingleRequestNoRetry ==
    \A i \in Invocations :
        /\ requests[i] <= 1
        /\ exc[i] \in ClientErrors \cup RunReportErrors =>
              /\ Ga4ErrorLogged(exc[i])
              /\ pc[i] \in {"main_except", "done"}
              /\ requests[i] = (IF exc[i] \in ClientErrors THEN 0 ELSE 1)
              /\ response[i] = <<>>
              /\ results[i] = <<>>
              /\ outputDocument[i] = <<>>
              /\ msg[i] = <<>>

\* An invocation whose report request failed has answered.
C8_Witness ==
    \E i \in Invocations :
        Done(i) /\ exc[i] \in RunReportErrors /\ requests[i] = 1
            /\ StatusOf(i) = STATUS_ERROR

\* The response main must give for what this invocation alone fetched and
\* for the error raised in this invocation alone.
OwnOutcome(i) ==
    IF Failed(i) THEN HttpResponse(ErrorBody(exc[i]), STATUS_ERROR)
    ELSE HttpResponse(format_response_as_json(response[i][1]), STATUS_OK)

\* The state that belongs to invocation i.
Local(i) ==
    <<response[i], results[i], exc[i], outputDocument[i], msg[i], http[i], requests[i]>>

\* C9: with invocations interleaved in any order, the response of each is
\* the one determined by its own fetch and its own error, and a step of one
\* invocation changes nothing of another's state.
C9_Independent ==
    /\ [](\A i \in Invocations : Done(i) => http[i] = <<OwnOutcome(i)>>)
    /\ [][\A i \in Invocations : pc'[i] = pc[i] => Local(i)' = Local(i)]_vars

\* Two concurrent invocations have both answered, one with 200 and one with
\* 500.
C9_Witness ==
    /\ Cardinality(Invocations) >= 2
    /\ \E i, j \in Invocations :
          /\ i # j
          /\ Done(i) /\ Done(j)
          /\ StatusOf(i) = STATUS_OK
          /\ StatusOf(j) = STATUS_ERROR

\* C10: every invocation ends by returning exactly one response, of status
\* 200 or 500; an invocation in which a step raised also returns one.
C10_Terminates ==
    /\ [](\A i \in Invocations :
             /\ Len(http[i]) = (IF Done(i) THEN 1 ELSE 0)
             /\ pc[i] # "raised"
             /\ Done(i) => StatusOf(i) \in {STATUS_OK, STATUS_ERROR})
    /\ \A i \in {1} : <>Done(i)

\* An invocation in which a step raised has returned its response.
C10_Witness ==
    \E i \in Invocations : Done(i) /\ Failed(i) /\ Len(http[i]) = 1

====
